---- MODULE Spec2Model ----
(***************************************************************************)
(* Finance tracker: the analytics and forecasting code of                  *)
(* finance_analytics.py (FinanceAnalyzer), its caller in finance_app.py,   *)
(* and the signed-amount views of dashboard/app.py, Analytics/analytics.py *)
(* and transaction/manager.py.                                             *)
(*                                                                         *)
(* Money is an integer number of currency units on input.  A value the     *)
(* code rounds to 2 decimals is held in hundredths, a value it rounds to 3 *)
(* decimals in thousandths, an unrounded value as a reduced fraction       *)
(* <<numerator, denominator>>.  Arithmetic is exact: the last-bit noise of *)
(* binary floating point is outside the model.  A date is a day number     *)
(* (the ISO date strings of the code order the same way).                  *)
(***************************************************************************)
EXTENDS Integers, Sequences, FiniteSets, TLC

VARIABLES
    transactions,    \* List[Transaction] handed to FinanceAnalyzer (finance_core objects)
    rows,            \* rows of the signed-amount store read by dashboard / Analytics views
    HAS_SKLEARN,     \* finance_analytics.py: whether sklearn was importable in this build
    old_scipy,       \* build has an older scipy: linregress yields NaN (instead of raising) on
                     \* identical x, skew/kurtosis yield 0/-3 (instead of NaN) on constant data
    mode_raises,     \* build has a Python (< 3.8) whose statistics.mode raises on ties
    out,             \* the last call made and what it returned
    database,        \* the tables of the SQLite file behind the component at work
    view,            \* the widget / iterator object at work: its attributes
    calls            \* the calls made so far on one input, each with what it returned

vars == <<transactions, rows, HAS_SKLEARN, old_scipy, mode_raises, out, database, view, calls>>

----------------------------------------------------------------------------
(* Bounds of the input universe *)

MaxLen == 3
MaxDay == 2

Amounts == {10, 50}
Dates == 0..MaxDay

\* predict_spending(transactions, days_ahead=30)
DefaultDaysAhead == 30

\* the horizons tried: the next day and the default
DaysAhead == {1, DefaultDaysAhead}

----------------------------------------------------------------------------
(* finance_core.py: the Transaction classes *)

Income(amount, category, date) ==
    [type |-> "Income", amount |-> amount, category |-> category, date |-> date]

Expense(amount, category, date) ==
    [type |-> "Expense", amount |-> amount, category |-> category, date |-> date]

----------------------------------------------------------------------------
(* Arithmetic helpers *)

RECURSIVE Sum(_)
Sum(s) == IF s = <<>> THEN 0 ELSE Head(s) + Sum(Tail(s))

Abs(x) == IF x < 0 THEN -x ELSE x

RECURSIVE GCD(_, _)
GCD(a, b) == IF b = 0 THEN a ELSE GCD(b, a % b)

\* a fraction <<n, d>> with d > 0 in lowest terms
Frac(n, d) ==
    LET s == IF d < 0 THEN -1 ELSE 1
        g == GCD(Abs(n), Abs(d))
    IN  <<(s * n) \div g, (s * d) \div g>>

\* operations cancel common factors first, so intermediate values stay small
FrAdd(a, b) ==
    LET g == GCD(a[2], b[2])
    IN  Frac(a[1] * (b[2] \div g) + b[1] * (a[2] \div g), (a[2] \div g) * b[2])

FrNeg(a) == <<-a[1], a[2]>>
FrSub(a, b) == FrAdd(a, FrNeg(b))

FrMul(a, b) ==
    LET g1 == GCD(Abs(a[1]), b[2])
        g2 == GCD(Abs(b[1]), a[2])
    IN  Frac((a[1] \div g1) * (b[1] \div g2), (a[2] \div g2) * (b[2] \div g1))

\* a / b for b # 0
FrDiv(a, b) == FrMul(a, IF b[1] < 0 THEN <<-b[2], -b[1]>> ELSE <<b[2], b[1]>>)

FrInt(k) == <<k, 1>>

RECURSIVE FrSum(_)
FrSum(s) == IF s = <<>> THEN FrInt(0) ELSE FrAdd(Head(s), FrSum(Tail(s)))

\* nearest integer to n/d (d > 0), ties to even
RoundHalfEven(n, d) ==
    LET q == n \div d
        r == n % d
    IN  IF 2 * r < d THEN q
        ELSE IF 2 * r > d THEN q + 1
        ELSE IF q % 2 = 0 THEN q ELSE q + 1

\* round(float(v), 2) in hundredths, round(float(v), 3) in thousandths
Round2(f) == RoundHalfEven(100 * f[1], f[2])
Round3(f) == RoundHalfEven(1000 * f[1], f[2])

SelectExpenses(txs) == SelectSeq(txs, LAMBDA t : t.type = "Expense")

\* list.sort(key=lambda x: x.date): stable, ascending
RECURSIVE SortByDate(_)
SortByDate(s) ==
    IF s = <<>> THEN <<>>
    ELSE LET n == Len(s)
             front == SortByDate(SubSeq(s, 1, n - 1))
             last == s[n]
             k == Cardinality({i \in 1..(n - 1) : front[i].date <= last.date})
         IN  SubSeq(front, 1, k) \o <<last>> \o SubSeq(front, k + 1, n - 1)

----------------------------------------------------------------------------
(* The two regression back ends of predict_spending *)

SumXY(X, y) == Sum([i \in 1..Len(X) |-> X[i] * y[i]])

\* n*Sxx - Sx^2, n*Sxy - Sx*Sy, n*Syy - Sy^2
DevXX(X) == Len(X) * SumXY(X, X) - Sum(X) * Sum(X)
DevXY(X, y) == Len(X) * SumXY(X, y) - Sum(X) * Sum(y)

\* a fit forced through the origin (fit_intercept=False)
LinearRegressionFit_NoIntercept(X, y) ==
    [coef |-> IF SumXY(X, X) = 0 THEN FrInt(0) ELSE Frac(SumXY(X, y), SumXY(X, X)),
     intercept |-> FrInt(0)]

\* sklearn LinearRegression().fit(X, y): centred least squares; with all x
\* identical the minimum-norm solution has coef 0
LinearRegressionFit(X, y) ==
    LET n == Len(X)
        coef == IF DevXX(X) = 0 THEN FrInt(0) ELSE Frac(DevXY(X, y), DevXX(X))
    IN  [coef |-> coef,
         intercept |-> FrSub(Frac(Sum(y), n), FrMul(coef, Frac(Sum(X), n)))]

\* model.predict([[x]])[0]
LinearRegressionPredict(model, x) == FrAdd(FrMul(model.coef, FrInt(x)), model.intercept)

\* model.score(X, y) = r2_score(y, predict(X)): 1.0 when the residual sum is 0,
\* 0.0 when only the total sum is 0, else 1 - SSres/SStot
LinearRegressionScore(model, X, y) ==
    LET n == Len(X)
        ymean == Frac(Sum(y), n)
        sq(f) == FrMul(f, f)
        res(i) == sq(FrSub(FrInt(y[i]), LinearRegressionPredict(model, X[i])))
        tot(i) == sq(FrSub(FrInt(y[i]), ymean))
        ssres == FrSum([i \in 1..n |-> res(i)])
        sstot == FrSum([i \in 1..n |-> tot(i)])
    IN  IF ssres[1] = 0 THEN FrInt(1)
        ELSE IF sstot[1] = 0 THEN FrInt(0)
        ELSE FrSub(FrInt(1), FrDiv(ssres, sstot))

\* scipy.stats.linregress(x, y) for x not all identical: slope, intercept and
\* r_value * r_value (r_value is 0.0 when y has no variance)
Linregress(X, y) ==
    LET n == Len(X)
        slope == Frac(DevXY(X, y), DevXX(X))
        devyy == DevXX(y)
    IN  [slope |-> slope,
         intercept |-> FrSub(Frac(Sum(y), n), FrMul(slope, Frac(Sum(X), n))),
         r_squared |-> IF devyy = 0 THEN FrInt(0)
                       ELSE FrMul(Frac(DevXY(X, y), DevXX(X)), Frac(DevXY(X, y), devyy))]

----------------------------------------------------------------------------
(* FinanceAnalyzer.predict_spending *)

\* the dict predict_spending returns; nan names the fields holding float NaN
\* (their number is then a placeholder)
ForecastDict(prediction, daily_rate, r_squared, days_ahead, nan) ==
    [status |-> "returned", prediction |-> prediction, daily_rate |-> daily_rate,
     r_squared |-> r_squared, days_ahead |-> days_ahead, nan |-> nan]

\* the call raised an exception of the given class
Raised(exc) == [status |-> "raised", exception |-> exc]

\* days since the first (earliest) expense, for each sorted expense
DayOffsets(expenses) == [i \in 1..Len(expenses) |-> expenses[i].date - expenses[1].date]

MagnitudesOf(expenses) == [i \in 1..Len(expenses) |-> expenses[i].amount]

\* Transaction.__init__ stores the date string as given (self.date = date): a
\* record can hold a string that is no ISO date.  BadDate is the day number
\* that stands for such a string; it sorts after every date.
BadDate == 9999

\* expenses = [t for ...] is a new list and expenses.sort(...) reorders that
\* list: what the caller's list holds once predict_spending has returned
CallerListAfterSort_InPlace(txs) == SortByDate(txs)

\* ... and with the caller's list replaced by the sorted expenses
CallerListAfterSort_ExpensesKept(txs) == SortByDate(SelectExpenses(txs))

CallerListAfterSort(txs) == txs

\* the horizon counted from the first expense instead of the last
FutureDay_FromFirst(X, days_ahead) == days_ahead

\* last_day = X[-1][0]; future_day = last_day + days_ahead
FutureDay(X, days_ahead) == X[Len(X)] + days_ahead

\* predict_spending as a build runs it: has_sklearn says which branch of
\* `if HAS_SKLEARN and LinearRegression is not None` the build takes, scipy_old
\* what its linregress does with identical x
predict_spending_in_build(txs, days_ahead, has_sklearn, scipy_old) ==
    LET expenses == SortByDate(SelectExpenses(txs))
        X == DayOffsets(expenses)
        y == MagnitudesOf(expenses)
        future_day == FutureDay(X, days_ahead)
    IN  IF Len(SelectExpenses(txs)) < 2
        THEN ForecastDict(0, 0, 0, days_ahead, {})
        ELSE IF \E i \in 1..Len(expenses) : expenses[i].date = BadDate
        THEN Raised("ValueError")    \* datetime.fromisoformat
        ELSE IF has_sklearn
        THEN LET model == LinearRegressionFit(X, y)
             IN  ForecastDict(Round2(LinearRegressionPredict(model, future_day)),
                              Round2(model.coef),
                              Round3(LinearRegressionScore(model, X, y)),
                              days_ahead, {})
        ELSE IF DevXX(X) = 0
        THEN IF scipy_old
             THEN ForecastDict(0, 0, 0, days_ahead, {"prediction", "daily_rate"})
             ELSE Raised("ValueError")
        ELSE LET fit == Linregress(X, y)
             IN  ForecastDict(Round2(FrAdd(FrMul(fit.slope, FrInt(future_day)), fit.intercept)),
                              Round2(fit.slope),
                              Round3(fit.r_squared),
                              days_ahead, {})

\* the call in the build at hand
predict_spending(txs, days_ahead) ==
    predict_spending_in_build(txs, days_ahead, HAS_SKLEARN, old_scipy)

----------------------------------------------------------------------------
(* finance_core.py / finance_app.py: the caller of predict_spending *)

\* SELECT * FROM transactions ORDER BY date DESC (rows of one date in insertion order)
RECURSIVE get_all_transactions(_)
get_all_transactions(db) ==
    IF db = <<>> THEN <<>>
    ELSE LET n == Len(db)
             front == get_all_transactions(SubSeq(db, 1, n - 1))
             last == db[n]
             k == Cardinality({i \in 1..(n - 1) : front[i].date >= last.date})
         IN  SubSeq(front, 1, k) \o <<last>> \o SubSeq(front, k + 1, n - 1)

\* the trend text generate_prediction derives from daily_rate (NaN compares false)
TrendOf(p) ==
    IF "daily_rate" \in p.nan THEN "stable"
    ELSE IF p.daily_rate > 0 THEN "increasing"
    ELSE IF p.daily_rate < 0 THEN "decreasing"
    ELSE "stable"

\* FinanceTrackerApp.generate_prediction: what the prediction tab ends up showing
generate_prediction(db, days) ==
    LET txs == get_all_transactions(db)
    IN  IF Len(txs) < 2
        THEN [shown |-> "info", message |-> "Need at least 2 transactions for prediction"]
        ELSE LET prediction == predict_spending(txs, days)
             IN  IF prediction.status = "raised"
                 THEN [shown |-> "error", message |-> "Prediction failed"]
                 ELSE [shown |-> "prediction", prediction |-> prediction,
                       trend |-> TrendOf(prediction)]

----------------------------------------------------------------------------
(* Forecasting: the inputs and the calls *)

\* expenses of every amount and date, and one income record (the forecast
\* drops income records whatever they hold)
CoreRecords ==
    [type : {"Expense"}, amount : Amounts, category : {"Food"}, date : Dates]
        \cup {Income(10, "Salary", 0)}

SeqsUpTo(S, n) == UNION {[1..k -> S] : k \in 0..n}

\* spec section 8: expenses 10..50 on consecutive days, and five expenses of 50
RegressionExample == [i \in 1..5 |-> Expense(10 * i, "Food", i - 1)]
ConstantExample == [i \in 1..5 |-> Expense(50, "Food", i - 1)]

\* two expenses four months apart that differ by one currency unit: a slope of
\* 1/125 = 0.008 per day
SmallSlopeExample == <<Expense(10, "Food", 0), Expense(11, "Food", 125)>>

ForecastSeries ==
    SeqsUpTo(CoreRecords, MaxLen) \cup {RegressionExample, ConstantExample, SmallSlopeExample}

\* Every operation below is a function of its arguments and of the build alone
\* and writes nothing but its return value: a behaviour is one call on one
\* input, out = NoCall until the call has returned.
NoCall == [op |-> "none"]

\* no database file is open and no widget or iterator exists
NoDb == [open |-> FALSE]
NoView == [kind |-> "none"]

Init ==
    /\ transactions \in ForecastSeries
    /\ rows = <<>>
    /\ HAS_SKLEARN \in BOOLEAN
    /\ old_scipy \in (IF HAS_SKLEARN THEN {FALSE} ELSE BOOLEAN)
    /\ mode_raises = FALSE
    /\ out = NoCall
    /\ database = NoDb /\ view = NoView /\ calls = <<>>

PredictSpending ==
    /\ out = NoCall
    /\ \E days_ahead \in DaysAhead :
        out' = [op |-> "predict_spending", days_ahead |-> days_ahead,
                res |-> predict_spending(transactions, days_ahead)]
    /\ transactions' = CallerListAfterSort(transactions)
    /\ UNCHANGED <<rows, HAS_SKLEARN, old_scipy, mode_raises, database, view, calls>>

GeneratePrediction ==
    /\ out = NoCall
    /\ \E days \in DaysAhead :
        out' = [op |-> "generate_prediction", days_ahead |-> days,
                res |-> generate_prediction(transactions, days)]
    /\ UNCHANGED <<transactions, rows, HAS_SKLEARN, old_scipy, mode_raises, database, view, calls>>

Next == PredictSpending \/ GeneratePrediction

Spec == Init /\ [][Next]_vars

----------------------------------------------------------------------------
(* FinanceAnalyzer.calculate_statistics, numpy_operations, scipy_analysis and
   transaction/manager.py compute_basic_stats *)

\* sorted(amounts)
RECURSIVE SortAsc(_)
SortAsc(s) ==
    IF s = <<>> THEN <<>>
    ELSE LET n == Len(s)
             front == SortAsc(SubSeq(s, 1, n - 1))
             k == Cardinality({i \in 1..(n - 1) : front[i] <= s[n]})
         IN  SubSeq(front, 1, k) \o <<s[n]>> \o SubSeq(front, k + 1, n - 1)

Count(amounts, v) == Cardinality({i \in 1..Len(amounts) : amounts[i] = v})

\* the values of highest frequency
Modes(amounts) ==
    {amounts[i] : i \in {j \in 1..Len(amounts) :
        \A k \in 1..Len(amounts) : Count(amounts, amounts[k]) <= Count(amounts, amounts[j])}}

\* statistics.mean / statistics.median
Mean(amounts) == Frac(Sum(amounts), Len(amounts))

\* the middle pair of an even-length list added up and not halved
Median_MiddlePairSum(amounts) ==
    LET a == SortAsc(amounts)
        n == Len(a)
    IN  IF n % 2 = 1 THEN FrInt(a[(n + 1) \div 2])
        ELSE FrInt(a[n \div 2] + a[n \div 2 + 1])

Median(amounts) ==
    LET a == SortAsc(amounts)
        n == Len(a)
    IN  IF n % 2 = 1 THEN FrInt(a[(n + 1) \div 2])
        ELSE Frac(a[n \div 2] + a[n \div 2 + 1], 2)

\* statistics.mode on Python >= 3.8: the first value met among those of highest
\* frequency; before 3.8 it raises StatisticsError when that value is not unique
StdlibModeRaises(amounts) == mode_raises /\ Cardinality(Modes(amounts)) > 1

StdlibMode(amounts) ==
    amounts[CHOOSE i \in 1..Len(amounts) :
                /\ amounts[i] \in Modes(amounts)
                /\ \A j \in 1..(i - 1) : amounts[j] \notin Modes(amounts)]

\* scipy.stats.mode(data).mode[0]: the smallest value of highest frequency
ScipyMode(amounts) == CHOOSE m \in Modes(amounts) : \A v \in Modes(amounts) : m <= v

\* floor of the square root
RECURSIVE ISqrtIn(_, _, _)
ISqrtIn(n, lo, hi) ==
    IF lo >= hi THEN lo
    ELSE LET mid == (lo + hi + 1) \div 2
         IN  IF mid * mid <= n THEN ISqrtIn(n, mid, hi) ELSE ISqrtIn(n, lo, mid - 1)

ISqrt(n) == ISqrtIn(n, 0, IF n < 46340 THEN n ELSE 46340)

\* sample variance (n - 1 denominator), n > 1
Variance(amounts) ==
    LET n == Len(amounts)
    IN  Frac(DevXX(amounts), n * (n - 1))

\* round(sqrt(v), 2) in hundredths, for a fraction v >= 0
RoundSqrt2(v) ==
    LET m == ISqrt((10000 * v[1]) \div v[2])
    IN  IF 40000 * v[1] >= (4 * m * m + 4 * m + 1) * v[2] THEN m + 1 ELSE m

MinOf(amounts) == CHOOSE m \in {amounts[i] : i \in 1..Len(amounts)} :
                      \A j \in 1..Len(amounts) : m <= amounts[j]
MaxOf(amounts) == CHOOSE m \in {amounts[i] : i \in 1..Len(amounts)} :
                      \A j \in 1..Len(amounts) : m >= amounts[j]

\* FinanceAnalyzer.calculate_statistics: every value rounded to 2 decimals
calculate_statistics(amounts) ==
    IF amounts = <<>>
    THEN [mean |-> 0, median |-> 0, mode |-> 0, std_dev |-> 0, min |-> 0, max |-> 0]
    ELSE [mean |-> Round2(Mean(amounts)),
          median |-> Round2(Median(amounts)),
          mode |-> IF StdlibModeRaises(amounts) THEN 100 * amounts[1]
                   ELSE 100 * StdlibMode(amounts),
          std_dev |-> IF Len(amounts) > 1 THEN RoundSqrt2(Variance(amounts)) ELSE 0,
          min |-> 100 * MinOf(amounts),
          max |-> 100 * MaxOf(amounts)]

\* np.percentile(arr, p): linear interpolation between order statistics
Percentile(amounts, p) ==
    LET a == SortAsc(amounts)
        n == Len(a)
        lo == ((n - 1) * p) \div 100
        rest == Frac(((n - 1) * p) % 100, 100)
    IN  IF lo + 1 >= n THEN FrInt(a[n])
        ELSE FrAdd(FrInt(a[lo + 1]), FrMul(rest, FrInt(a[lo + 2] - a[lo + 1])))

\* FinanceAnalyzer.numpy_operations: unrounded values, as fractions
numpy_operations(amounts) ==
    IF amounts = <<>>
    THEN [sum |-> 0, mean |-> 0, percentile_75 |-> 0]
    ELSE [sum |-> FrInt(Sum(amounts)),
          mean |-> Mean(amounts),
          percentile_25 |-> Percentile(amounts, 25),
          percentile_75 |-> Percentile(amounts, 75),
          cumulative_sum |-> [i \in 1..Len(amounts) |-> Sum(SubSeq(amounts, 1, i))]]

\* k-th central moment sum((x - mean)^k) / n
CentralMoment(amounts, k) ==
    LET n == Len(amounts)
        d(i) == FrSub(FrInt(amounts[i]), Mean(amounts))
        RECURSIVE pow(_, _)
        pow(f, e) == IF e = 0 THEN FrInt(1) ELSE FrMul(f, pow(f, e - 1))
    IN  FrDiv(FrSum([i \in 1..n |-> pow(d(i), k)]), FrInt(n))

\* FinanceAnalyzer.scipy_analysis.  skewness m3 / m2^(3/2) is irrational in
\* general: it is held as the pair of moments; kurtosis is m4 / m2^2 - 3.  On
\* data without variance both are NaN (an older scipy gives 0 and -3).
scipy_analysis(amounts) ==
    IF Len(amounts) < 3
    THEN [skewness |-> 0, kurtosis |-> 0]
    ELSE LET m2 == CentralMoment(amounts, 2)
         IN  IF m2[1] = 0
             THEN IF old_scipy THEN [skewness |-> FrInt(0), kurtosis |-> FrInt(-3)]
                  ELSE [skewness |-> "nan", kurtosis |-> "nan"]
             ELSE [skewness |-> [m3 |-> CentralMoment(amounts, 3), m2 |-> m2],
                   kurtosis |-> FrSub(FrDiv(CentralMoment(amounts, 4), FrMul(m2, m2)),
                                      FrInt(3))]

\* transaction/manager.py compute_basic_stats: unrounded; stdev is the square
\* root of the fraction held in stdev.sqrt_of
compute_basic_stats(amounts) ==
    IF amounts = <<>>
    THEN [x \in {} |-> 0]
    ELSE [mean |-> Mean(amounts),
          median |-> Median(amounts),
          mode |-> IF StdlibModeRaises(amounts) THEN FrInt(ScipyMode(amounts))
                   ELSE FrInt(StdlibMode(amounts)),
          stdev |-> [sqrt_of |-> IF Len(amounts) > 1 THEN Variance(amounts) ELSE FrInt(0)]]

----------------------------------------------------------------------------
(* Statistics: the inputs and the calls *)

MaxStatsLen == 4

StatsAmounts == {10, 20, 30}

StatsRecords == [type : {"Income", "Expense"}, amount : StatsAmounts, category : {"Food"}, date : {0}]

\* generate_analytics: expense_amounts = [t.amount for t in transactions if isinstance(t, Expense)]
ExpenseAmounts(txs) ==
    LET e == SelectExpenses(txs) IN [i \in 1..Len(e) |-> e[i].amount]

InitStats ==
    /\ transactions \in SeqsUpTo(StatsRecords, MaxStatsLen)
    /\ rows = <<>>
    /\ HAS_SKLEARN = FALSE
    /\ old_scipy \in BOOLEAN
    /\ mode_raises \in (IF old_scipy THEN BOOLEAN ELSE {FALSE})
    /\ out = NoCall
    /\ database = NoDb /\ view = NoView /\ calls = <<>>

CalculateStatistics ==
    /\ out = NoCall
    /\ out' = [op |-> "calculate_statistics",
               res |-> calculate_statistics(ExpenseAmounts(transactions))]
    /\ UNCHANGED <<transactions, rows, HAS_SKLEARN, old_scipy, mode_raises, database, view, calls>>

NumpyOperations ==
    /\ out = NoCall
    /\ out' = [op |-> "numpy_operations",
               res |-> numpy_operations(ExpenseAmounts(transactions))]
    /\ UNCHANGED <<transactions, rows, HAS_SKLEARN, old_scipy, mode_raises, database, view, calls>>

ScipyAnalysis ==
    /\ out = NoCall
    /\ out' = [op |-> "scipy_analysis",
               res |-> scipy_analysis(ExpenseAmounts(transactions))]
    /\ UNCHANGED <<transactions, rows, HAS_SKLEARN, old_scipy, mode_raises, database, view, calls>>

ComputeBasicStats ==
    /\ out = NoCall
    /\ out' = [op |-> "compute_basic_stats",
               res |-> compute_basic_stats(ExpenseAmounts(transactions))]
    /\ UNCHANGED <<transactions, rows, HAS_SKLEARN, old_scipy, mode_raises, database, view, calls>>

NextStats == CalculateStatistics \/ NumpyOperations \/ ScipyAnalysis \/ ComputeBasicStats

SpecStats == InitStats /\ [][NextStats]_vars

----------------------------------------------------------------------------
(* FinanceAnalyzer.monthly_trend, category_percentages and the summaries of
   FinanceDatabase: period and category aggregation over finance_core records *)

\* t.date[:7]: the "YYYY-MM" prefix of the date string (months of 30 days);
\* the slice is taken of whatever string the record holds
MonthKey(date) == date \div 30

\* sorted(set(...)) of a finite set of keys
RECURSIVE SortedKeys(_)
SortedKeys(S) ==
    IF S = {} THEN <<>>
    ELSE LET m == CHOOSE x \in S : \A y \in S : x <= y
         IN  <<m>> \o SortedKeys(S \ {m})

AmountSum(txs) == Sum([i \in 1..Len(txs) |-> txs[i].amount])

\* the two defaultdict(float) of monthly_trend: every record that is not an
\* Income object is added to expense_by_month
IncomeByMonth(txs, m) ==
    AmountSum(SelectSeq(txs, LAMBDA t : t.type = "Income" /\ MonthKey(t.date) = m))

ExpenseByMonth(txs, m) ==
    AmountSum(SelectSeq(txs, LAMBDA t : t.type # "Income" /\ MonthKey(t.date) = m))

\* the months of the expense records alone
AllMonths_ExpenseKeysOnly(txs) ==
    SortedKeys({MonthKey(txs[i].date) : i \in {j \in 1..Len(txs) : txs[j].type # "Income"}})

\* all_months = sorted(set(list(income_by_month.keys()) + list(expense_by_month.keys())))
AllMonths(txs) == SortedKeys({MonthKey(txs[i].date) : i \in 1..Len(txs)})

\* FinanceAnalyzer.monthly_trend: (all_months, income_vals, expense_vals)
monthly_trend(txs) ==
    LET all_months == AllMonths(txs)
    IN  [status |-> "returned",
         months |-> all_months,
         income_vals |-> [i \in 1..Len(all_months) |-> IncomeByMonth(txs, all_months[i])],
         expense_vals |-> [i \in 1..Len(all_months) |-> ExpenseByMonth(txs, all_months[i])]]

\* the keys of a dict filled record by record: each category once, in the
\* order of its first record
RECURSIVE FirstAppearance(_)
FirstAppearance(txs) ==
    IF txs = <<>> THEN <<>>
    ELSE LET front == FirstAppearance(SubSeq(txs, 1, Len(txs) - 1))
             c == txs[Len(txs)].category
         IN  IF \E i \in 1..Len(front) : front[i] = c THEN front ELSE Append(front, c)

\* sorted(items, key=lambda x: x[1], reverse=True): descending by value, items
\* of equal value in their original order
RECURSIVE SortByValueDesc(_)
SortByValueDesc(items) ==
    IF items = <<>> THEN <<>>
    ELSE LET n == Len(items)
             front == SortByValueDesc(SubSeq(items, 1, n - 1))
             k == Cardinality({i \in 1..(n - 1) : front[i].value >= items[n].value})
         IN  SubSeq(front, 1, k) \o <<items[n]>> \o SubSeq(front, k + 1, n - 1)

\* round((amount / total) * 100, 1) in tenths of a percent, total # 0
PercentOf(amount, total) ==
    LET share == Frac(1000 * amount, total) IN RoundHalfEven(share[1], share[2])

\* FinanceAnalyzer.category_percentages: the dict in its item order; each value
\* is round(amount / total * 100, 1), held in tenths of a percent.  amount /
\* total is a float division: it raises ZeroDivisionError when total is 0.
category_percentages(txs) ==
    LET expenses == SelectExpenses(txs)
        total == AmountSum(expenses)
        keys == FirstAppearance(expenses)
        category_totals(c) == AmountSum(SelectSeq(expenses, LAMBDA t : t.category = c))
        percentages == [i \in 1..Len(keys) |->
                           [category |-> keys[i],
                            value |-> PercentOf(category_totals(keys[i]), total)]]
    IN  IF expenses = <<>> THEN [status |-> "returned", percentages |-> <<>>]
        ELSE IF total = 0 THEN Raised("ZeroDivisionError")
        ELSE [status |-> "returned", percentages |-> SortByValueDesc(percentages)]

\* FinanceDatabase.get_summary_stats: SUM(CASE WHEN type = ... THEN amount ELSE 0 END)
get_summary_stats(db) ==
    LET total_income == AmountSum(SelectSeq(db, LAMBDA t : t.type = "Income"))
        total_expenses == AmountSum(SelectSeq(db, LAMBDA t : t.type = "Expense"))
    IN  [status |-> "returned",
         total_income |-> total_income,
         total_expenses |-> total_expenses,
         net_balance |-> total_income - total_expenses,
         transaction_count |-> Len(db)]

\* GROUP BY category ORDER BY total DESC: SQL leaves the order of groups of
\* equal total open, so every descending order of the groups is a result.
\* totals is the function group key -> total.
OrdersByTotalDesc(totals) ==
    LET keys == DOMAIN totals
        n == Cardinality(keys)
        orders == {p \in [1..n -> keys] :
                      /\ \A i, j \in 1..n : i # j => p[i] # p[j]
                      /\ \A i, j \in 1..n : i < j => totals[p[i]] >= totals[p[j]]}
    IN  {[i \in 1..n |-> [category |-> p[i], total |-> totals[p[i]]]] : p \in orders}

\* FinanceDatabase.get_category_summary: SELECT category, SUM(amount)
\* WHERE type = 'Expense' GROUP BY category ORDER BY total DESC
get_category_summary(db) ==
    LET expenses == SelectSeq(db, LAMBDA t : t.type = "Expense")
        cats == {expenses[i].category : i \in 1..Len(expenses)}
    IN  OrdersByTotalDesc([c \in cats |->
            AmountSum(SelectSeq(expenses, LAMBDA t : t.category = c))])

----------------------------------------------------------------------------
(* Aggregation over finance_core records: the inputs and the calls *)

MaxTrendLen == 3

\* records of both classes in two categories, in two months, and one expense
\* whose date string is no date
TrendRecords ==
    [type : {"Income", "Expense"}, amount : {10, 50}, category : {"Food", "Rent"}, date : {0}]
        \cup {Expense(10, "Food", 30), Income(50, "Rent", 30), Expense(10, "Food", BadDate)}

InitTrend ==
    /\ transactions \in SeqsUpTo(TrendRecords, MaxTrendLen)
    /\ rows = <<>>
    /\ HAS_SKLEARN \in BOOLEAN
    /\ old_scipy = FALSE
    /\ mode_raises = FALSE
    /\ out = NoCall
    /\ database = NoDb /\ view = NoView /\ calls = <<>>

MonthlyTrend ==
    /\ out = NoCall
    /\ out' = [op |-> "monthly_trend", res |-> monthly_trend(transactions)]
    /\ UNCHANGED <<transactions, rows, HAS_SKLEARN, old_scipy, mode_raises, database, view, calls>>

CategoryPercentages ==
    /\ out = NoCall
    /\ out' = [op |-> "category_percentages", res |-> category_percentages(transactions)]
    /\ UNCHANGED <<transactions, rows, HAS_SKLEARN, old_scipy, mode_raises, database, view, calls>>

GetSummaryStats ==
    /\ out = NoCall
    /\ out' = [op |-> "get_summary_stats", res |-> get_summary_stats(transactions)]
    /\ UNCHANGED <<transactions, rows, HAS_SKLEARN, old_scipy, mode_raises, database, view, calls>>

GetCategorySummary ==
    /\ out = NoCall
    /\ \E summary \in get_category_summary(transactions) :
        out' = [op |-> "get_category_summary", res |-> summary]
    /\ UNCHANGED <<transactions, rows, HAS_SKLEARN, old_scipy, mode_raises, database, view, calls>>

NextTrend ==
    \/ MonthlyTrend
    \/ CategoryPercentages
    \/ GetSummaryStats
    \/ GetCategorySummary
    \/ PredictSpending
    \/ CalculateStatistics

SpecTrend == InitTrend /\ [][NextTrend]_vars

----------------------------------------------------------------------------
(* The signed-amount store (finance_ctk.db) and its views:
   Analytics/analytics.py _plot_category_trends, dashboard/app.py run_prediction *)

Row(date, amount, category) == [date |-> date, amount |-> amount, category |-> category]

\* calendar month of a day number (months of 30 days; the code truncates the
\* ISO date to year-month)
MonthOf(date) == date \div 30

\* the category names in alphabetical order (pandas groupby sorts its keys)
CategoriesAlpha == <<"Bills", "Expense", "Food", "Rent", "Shopping", "Transport">>

AlphaRank(c) == CHOOSE i \in 1..Len(CategoriesAlpha) : CategoriesAlpha[i] = c

\* df['expense'] = abs(amount) if amount < 0 else 0
ExpenseColumn(r) == IF r.amount < 0 THEN Abs(r.amount) ELSE 0

\* df[df['amount'] < 0]
ExpenseRows(df) == SelectSeq(df, LAMBDA r : r.amount < 0)

\* df['expense'].sum()
ExpenseSum(df) == Sum([i \in 1..Len(df) |-> ExpenseColumn(df[i])])

CategoriesOf(df) == {df[i].category : i \in 1..Len(df)}

\* nlargest(4): how many categories are kept
TopCategories == 4

\* df_exp.groupby('category')['expense'].sum().nlargest(n).index: the n
\* categories of largest total, equal totals in alphabetical (group) order
NLargestCategories(df_exp, n) ==
    LET total(c) == ExpenseSum(SelectSeq(df_exp, LAMBDA r : r.category = c))
        before(a, b) == \/ total(a) > total(b)
                        \/ total(a) = total(b) /\ AlphaRank(a) < AlphaRank(b)
    IN  {c \in CategoriesOf(df_exp) :
            Cardinality({b \in CategoriesOf(df_exp) : before(b, c)}) < n}

\* AnalyticsView._plot_category_trends: the month x category table it plots as
\* a stacked area chart, or nothing when there is no expense
plot_category_trends(df) ==
    LET df_exp == ExpenseRows(df)
        top_cats == NLargestCategories(df_exp, TopCategories)
        df_top == SelectSeq(df_exp, LAMBDA r : r.category \in top_cats)
        months == {MonthOf(df_top[i].date) : i \in 1..Len(df_top)}
    IN  IF df_exp = <<>> THEN [plotted |-> FALSE]
        ELSE [plotted |-> TRUE,
              pivot |-> [m \in months |-> [c \in CategoriesOf(df_top) |->
                            ExpenseSum(SelectSeq(df_top,
                                LAMBDA r : MonthOf(r.date) = m /\ r.category = c))]]]

\* fetch_transactions(500): ORDER BY date DESC LIMIT 500
FetchLimit == 500

RECURSIVE OrderByDateDesc(_)
OrderByDateDesc(tbl) ==
    IF tbl = <<>> THEN <<>>
    ELSE LET n == Len(tbl)
             front == OrderByDateDesc(SubSeq(tbl, 1, n - 1))
             k == Cardinality({i \in 1..(n - 1) : front[i].date >= tbl[n].date})
         IN  SubSeq(front, 1, k) \o <<tbl[n]>> \o SubSeq(front, k + 1, n - 1)

fetch_transactions(tbl, limit) ==
    LET ordered == OrderByDateDesc(tbl)
    IN  SubSeq(ordered, 1, IF Len(ordered) < limit THEN Len(ordered) ELSE limit)

Reversed(s) == [i \in 1..Len(s) |-> s[Len(s) + 1 - i]]

\* the least number of expenses run_prediction accepts
MinExpenseHistory == 3

\* FinanceApp.run_prediction: regression of |expense| on its index, the
\* prediction for the next index clamped at 0 and shown with 2 decimals
run_prediction(tbl) ==
    LET chrono == ExpenseRows(Reversed(fetch_transactions(tbl, FetchLimit)))
        recent_expenses == [i \in 1..Len(chrono) |-> Abs(chrono[i].amount)]
        n == Len(recent_expenses)
        X == [i \in 1..n |-> i - 1]
        model == LinearRegressionFit(X, recent_expenses)
        pred == LinearRegressionPredict(model, n)
    IN  IF n < MinExpenseHistory
        THEN [shown |-> "not_enough_history"]
        ELSE [shown |-> "prediction",
              pred |-> IF pred[1] < 0 THEN 0 ELSE Round2(pred),
              trend |-> IF model.coef[1] > 0 THEN "increasing"
                        ELSE IF model.coef[1] < 0 THEN "decreasing" ELSE "flat"]

\* dashboard/app.py fetch_summary: SUM(amount) WHERE amount > 0,
\* SUM(ABS(amount)) WHERE amount < 0, COUNT(*)
fetch_summary(tbl) ==
    LET pos == SelectSeq(tbl, LAMBDA r : r.amount > 0)
        neg == SelectSeq(tbl, LAMBDA r : r.amount < 0)
        income == Sum([i \in 1..Len(pos) |-> pos[i].amount])
        expenses == Sum([i \in 1..Len(neg) |-> Abs(neg[i].amount)])
    IN  [income |-> income, expenses |-> expenses, net |-> income - expenses,
         count |-> Len(tbl)]

\* the breakdown taken over every row
BreakdownRows_NoFilter(tbl) == tbl

\* WHERE t.amount < 0
BreakdownRows(tbl) == SelectSeq(tbl, LAMBDA r : r.amount < 0)

\* dashboard/app.py fetch_category_breakdown() (no year and month): SELECT
\* c.name, SUM(ABS(t.amount)) ... GROUP BY category ORDER BY total DESC, as the
\* dict built in row order; every result the ORDER BY allows
fetch_category_breakdown(tbl) ==
    LET picked == BreakdownRows(tbl)
        SumAbs(rs) == Sum([i \in 1..Len(rs) |-> Abs(rs[i].amount)])
    IN  OrdersByTotalDesc([c \in CategoriesOf(picked) |->
            SumAbs(SelectSeq(picked, LAMBDA r : r.category = c))])

\* transaction/manager.py filter_expenses:
\* filter(lambda t: t.amount < 0 or t.category.lower() == "expense", txs)
filter_expenses(txs) ==
    SelectSeq(txs, LAMBDA t : t.amount < 0 \/ t.category = "Expense")

----------------------------------------------------------------------------
(* The signed-amount views: the inputs and the calls *)

MaxRows == 3

\* rows of every sign in three categories, and one row of positive amount
\* filed under the category "Expense" (manager.py Expense.__init__ sets it)
RowRecords ==
    [date : {0, 30}, amount : {-50, -10, 20}, category : {"Food", "Rent", "Transport"}]
        \cup {Row(0, 20, "Expense")}

\* spec section 8: expenses Food 100, Rent 300, Transport 50, Shopping 20; and
\* the same with a fifth category
CategoryExample ==
    <<Row(0, -100, "Food"), Row(0, -300, "Rent"), Row(0, -50, "Transport"),
      Row(0, -20, "Shopping")>>
FiveCategoryExample == CategoryExample \o <<Row(0, -10, "Bills")>>

RowsInputs == SeqsUpTo(RowRecords, MaxRows) \cup {CategoryExample, FiveCategoryExample}

InitRows ==
    /\ rows \in RowsInputs
    /\ transactions = <<>>
    /\ HAS_SKLEARN = TRUE
    /\ old_scipy = FALSE
    /\ mode_raises = FALSE
    /\ out = NoCall
    /\ database = NoDb /\ view = NoView /\ calls = <<>>

PlotCategoryTrends ==
    /\ out = NoCall
    /\ rows # <<>>
    /\ out' = [op |-> "plot_category_trends", res |-> plot_category_trends(rows)]
    /\ UNCHANGED <<transactions, rows, HAS_SKLEARN, old_scipy, mode_raises, database, view, calls>>

RunPrediction ==
    /\ out = NoCall
    /\ out' = [op |-> "run_prediction", res |-> run_prediction(rows)]
    /\ UNCHANGED <<transactions, rows, HAS_SKLEARN, old_scipy, mode_raises, database, view, calls>>

FilterExpenses ==
    /\ out = NoCall
    /\ out' = [op |-> "filter_expenses", res |-> filter_expenses(rows)]
    /\ UNCHANGED <<transactions, rows, HAS_SKLEARN, old_scipy, mode_raises, database, view, calls>>

FetchSummary ==
    /\ out = NoCall
    /\ out' = [op |-> "fetch_summary", res |-> fetch_summary(rows)]
    /\ UNCHANGED <<transactions, rows, HAS_SKLEARN, old_scipy, mode_raises, database, view, calls>>

FetchCategoryBreakdown ==
    /\ out = NoCall
    /\ \E breakdown \in fetch_category_breakdown(rows) :
        out' = [op |-> "fetch_category_breakdown", res |-> breakdown]
    /\ UNCHANGED <<transactions, rows, HAS_SKLEARN, old_scipy, mode_raises, database, view, calls>>

NextRows ==
    \/ PlotCategoryTrends
    \/ RunPrediction
    \/ FilterExpenses
    \/ FetchSummary
    \/ FetchCategoryBreakdown

SpecRows == InitRows /\ [][NextRows]_vars

----------------------------------------------------------------------------
(* Forecast claims, checked under Spec *)

NExpenses == Len(SelectExpenses(transactions))

\* at least 2 expense records, all of one magnitude
ConstantSeries ==
    LET e == SelectExpenses(transactions)
    IN  /\ Len(e) >= 2
        /\ \A i \in 1..Len(e) : e[i].amount = e[1].amount

\* the forecast dict the last call produced, if it produced one
ForecastReturned ==
    \/ out.op = "predict_spending" /\ out.res.status = "returned"
    \/ out.op = "generate_prediction" /\ out.res.shown = "prediction"

TheForecast == IF out.op = "predict_spending" THEN out.res ELSE out.res.prediction

\* C1: forecast on 0 or 1 expense records fails with an explicit InsufficientData
\* error and never returns a defaulted result.
C1_InsufficientDataRaised ==
    (out.op = "predict_spending" /\ NExpenses < 2) => out.res.status = "raised"

\* C2: whenever forecast returns a numeric prediction, the prediction is >= 0
\* (clamped), also for a steeply decreasing series.
C2_PredictionNonNegative ==
    (out.op = "predict_spending" /\ out.res.status = "returned"
        /\ "prediction" \notin out.res.nan)
    => out.res.prediction >= 0

\* C6: for a series with at least 2 expense records, the r_squared of the
\* forecast that is returned lies in [0, 1] (0..1000 thousandths).
C6_RSquaredInUnitInterval ==
    (ForecastReturned /\ NExpenses >= 2)
    => (TheForecast.r_squared >= 0 /\ TheForecast.r_squared <= 1000)

\* C6 witness: a fit that is neither perfect nor useless has been reported.
C6_Witness ==
    /\ out.op = "predict_spending" /\ NExpenses >= 3
    /\ out.res.status = "returned"
    /\ out.res.r_squared > 0 /\ out.res.r_squared < 1000

\* C7: when every expense magnitude is identical, the forecast that is returned
\* reports r_squared = 0 together with slope 0.
C7_DegenerateRSquaredZero ==
    (out.op = "predict_spending" /\ ConstantSeries
        /\ out.res.status = "returned" /\ out.res.nan = {})
    => (out.res.r_squared = 0 /\ out.res.daily_rate = 0)

\* C8: for a constant expense series of magnitude c, on any dates and for any
\* horizon, the forecast has daily_rate 0, a flat trend and prediction c.
C8_ConstantSeriesForecast ==
    (out.op = "generate_prediction" /\ ConstantSeries)
    => /\ out.res.shown = "prediction"
       /\ out.res.prediction.nan = {}
       /\ out.res.prediction.daily_rate = 0
       /\ out.res.trend = "stable"
       /\ out.res.prediction.prediction = 100 * SelectExpenses(transactions)[1].amount

\* The (day-offset, magnitude) pairs of the expenses: x counts the days from the
\* earliest expense date.
OLSPoints ==
    LET e == SelectExpenses(transactions)
        first == CHOOSE d \in {e[i].date : i \in 1..Len(e)} :
                    \A j \in 1..Len(e) : d <= e[j].date
    IN  [i \in 1..Len(e) |-> [x |-> e[i].date - first, y |-> e[i].amount]]

\* The least-squares line through pts, from the textbook definition: slope is
\* sum((x - xbar)(y - ybar)) / sum((x - xbar)^2) (0 when the x are all equal),
\* intercept is ybar - slope * xbar.
OLSLine(pts) ==
    LET n == Len(pts)
        xbar == Frac(Sum([i \in 1..n |-> pts[i].x]), n)
        ybar == Frac(Sum([i \in 1..n |-> pts[i].y]), n)
        dx(i) == FrSub(FrInt(pts[i].x), xbar)
        dy(i) == FrSub(FrInt(pts[i].y), ybar)
        sxx == FrSum([i \in 1..n |-> FrMul(dx(i), dx(i))])
        sxy == FrSum([i \in 1..n |-> FrMul(dx(i), dy(i))])
        slope == IF sxx[1] = 0 THEN FrInt(0) ELSE FrDiv(sxy, sxx)
    IN  [slope |-> slope, intercept |-> FrSub(ybar, FrMul(slope, xbar))]

\* the normal equations: the residuals sum to 0 and are orthogonal to x
MinimisesSquaredResiduals(pts, line) ==
    LET n == Len(pts)
        resid(i) == FrSub(FrInt(pts[i].y),
                          FrAdd(line.intercept, FrMul(line.slope, FrInt(pts[i].x))))
    IN  /\ FrSum([i \in 1..n |-> resid(i)]) = FrInt(0)
        /\ FrSum([i \in 1..n |-> FrMul(FrInt(pts[i].x), resid(i))]) = FrInt(0)

LastDayOffset(pts) ==
    CHOOSE m \in {pts[i].x : i \in 1..Len(pts)} : \A j \in 1..Len(pts) : pts[j].x <= m

C10_ForecastReturnsResult ==
    /\ (out.op = "predict_spending" /\ NExpenses >= 2)
       => (out.res.status = "returned" /\ out.res.nan = {})
    /\ (out.op = "generate_prediction" /\ NExpenses >= 2)
       => (out.res.shown = "prediction" /\ out.res.prediction.nan = {})

\* The series as sign-based typing reads it: the records of amount < 0, each
\* an expense of magnitude |amount|.
SignExpenses(txs) ==
    LET neg == SelectSeq(txs, LAMBDA t : t.amount < 0)
    IN  [i \in 1..Len(neg) |-> Expense(Abs(neg[i].amount), neg[i].category, neg[i].date)]

\* C11: the forecast operates on exactly the records of amount < 0 (as their
\* magnitude): records of amount >= 0 never influence the fit, whatever their
\* record class, so the result is that of the negative-amount records alone.
C11_ForecastUsesNegativeAmountsOnly ==
    out.op = "predict_spending"
    => out.res = predict_spending(SignExpenses(transactions), out.days_ahead)

\* the threshold the trend label is specified with: 0.01 currency units per day
TrendEpsilon == Frac(1, 100)

FrLess(a, b) == FrSub(a, b)[1] < 0

\* C13: the trend label is increasing exactly when the regression slope is
\* > epsilon, decreasing exactly when it is < -epsilon, and flat (stable)
\* otherwise: a non-zero slope with |slope| <= epsilon is labelled flat.
C13_TrendLabelUsesEpsilon ==
    (out.op = "generate_prediction" /\ NExpenses >= 2
        /\ out.res.shown = "prediction" /\ out.res.prediction.nan = {})
    => \A slope \in {OLSLine(OLSPoints).slope} :
          out.res.trend = IF FrLess(TrendEpsilon, slope) THEN "increasing"
                          ELSE IF FrLess(slope, FrNeg(TrendEpsilon)) THEN "decreasing"
                          ELSE "stable"

\* C23: the regression is one unified computation: for the same expense series
\* and days_ahead, predict_spending returns the same prediction, daily_rate and
\* r_squared, and fails or succeeds alike, whether the build takes the
\* HAS_SKLEARN branch or the fallback branch.
C23_BranchesAgree ==
    out.op = "predict_spending"
    => \A scipy_old \in BOOLEAN :
          predict_spending_in_build(transactions, out.days_ahead, ~HAS_SKLEARN, scipy_old)
              = out.res

----------------------------------------------------------------------------
(* Statistics claims, checked under SpecStats *)

\* C4: when several values share the maximum frequency, the reported mode is
\* the smallest of them, whatever the order of the amounts.
C4_ModeIsSmallestTied ==
    LET amounts == ExpenseAmounts(transactions)
    IN  (out.op = "calculate_statistics" /\ amounts # <<>>
            /\ Cardinality(Modes(amounts)) > 1)
        => out.res.mode = 100 * ScipyMode(amounts)

\* the statistics fields each calculator is responsible for
StatisticsFields ==
    [calculate_statistics |-> {"mean", "median", "mode", "std_dev", "min", "max"},
     numpy_operations |-> {"percentile_25", "percentile_75"},
     scipy_analysis |-> {"skewness", "kurtosis"},
     compute_basic_stats |-> {"mean", "median", "mode"}]

\* C5: on an empty amount list every statistics field is defined and zero.
C5_EmptyStatisticsAllZero ==
    (out.op \in DOMAIN StatisticsFields /\ ExpenseAmounts(transactions) = <<>>)
    => \A f \in StatisticsFields[out.op] :
          f \in DOMAIN out.res /\ out.res[f] = 0

\* C19: for every non-empty amount list the reported statistics satisfy
\* min <= mean <= max and min <= median <= max, after the rounding of each
\* field (calculate_statistics, in hundredths) and before it (compute_basic_stats).
C19_MeanMedianWithinRange ==
    \A amounts \in {ExpenseAmounts(transactions)} :
        /\ (out.op = "calculate_statistics" /\ amounts # <<>>)
           => /\ out.res.min <= out.res.mean /\ out.res.mean <= out.res.max
              /\ out.res.min <= out.res.median /\ out.res.median <= out.res.max
        /\ (out.op = "compute_basic_stats" /\ amounts # <<>>)
           => \A lo \in {FrInt(MinOf(amounts))} : \A hi \in {FrInt(MaxOf(amounts))} :
              /\ ~FrLess(out.res.mean, lo) /\ ~FrLess(hi, out.res.mean)
              /\ ~FrLess(out.res.median, lo) /\ ~FrLess(hi, out.res.median)

\* C19 witness: statistics of a list of different amounts whose mean is not a
\* whole number of hundredths before rounding.
C19_Witness ==
    /\ out.op = "calculate_statistics"
    /\ Len(ExpenseAmounts(transactions)) >= 3
    /\ out.res.min < out.res.max
    /\ (100 * Mean(ExpenseAmounts(transactions))[1]) % Mean(ExpenseAmounts(transactions))[2] # 0

----------------------------------------------------------------------------
(* Aggregation and frame claims, checked under SpecTrend *)

\* the totals as sign-based typing defines them
SignIncomeTotal(txs) == AmountSum(SelectSeq(txs, LAMBDA t : t.amount > 0))
SignExpenseTotal(txs) ==
    LET neg == SelectSeq(txs, LAMBDA t : t.amount < 0)
    IN  Sum([i \in 1..Len(neg) |-> Abs(neg[i].amount)])

\* C14: in every total a record counts as income exactly when amount > 0 and
\* as expense exactly when amount < 0, whatever its record class or category.
C14_SignBasedTotals ==
    /\ out.op = "get_summary_stats"
       => /\ out.res.total_income = SignIncomeTotal(transactions)
          /\ out.res.total_expenses = SignExpenseTotal(transactions)
    /\ out.op = "monthly_trend"
       => /\ Sum(out.res.income_vals) = SignIncomeTotal(transactions)
          /\ Sum(out.res.expense_vals) = SignExpenseTotal(transactions)

\* C15: a record with an unparsable date is rejected by every core operation
\* it reaches; none includes it silently.
C15_InvalidRecordRejected ==
    (out.op \in {"monthly_trend", "category_percentages", "predict_spending"}
        /\ \E i \in 1..Len(transactions) : transactions[i].date = BadDate)
    => out.res.status = "raised"

\* C16: monthly_trend never drops a period: every month in which the series has
\* a record appears exactly once (in ascending order), a month without income
\* (expense) records has income (expense) 0, and the three sequences have the
\* same length.
C16_PeriodsNeverDropped ==
    out.op = "monthly_trend"
    => \A r \in {out.res} :
        /\ {r.months[i] : i \in 1..Len(r.months)}
              = {MonthKey(transactions[i].date) : i \in 1..Len(transactions)}
        /\ \A i, j \in 1..Len(r.months) : i < j => r.months[i] < r.months[j]
        /\ Len(r.income_vals) = Len(r.months)
        /\ Len(r.expense_vals) = Len(r.months)
        /\ \A i \in 1..Len(r.months) :
            /\ (\A k \in 1..Len(transactions) :
                    MonthKey(transactions[k].date) = r.months[i]
                        => transactions[k].type # "Income")
               => r.income_vals[i] = 0
            /\ (\A k \in 1..Len(transactions) :
                    MonthKey(transactions[k].date) = r.months[i]
                        => transactions[k].type = "Income")
               => r.expense_vals[i] = 0

\* C16 witness: a trend over two months, one with income only and one with
\* expenses only.
C16_Witness ==
    /\ out.op = "monthly_trend"
    /\ Len(out.res.months) >= 2
    /\ \E i \in 1..Len(out.res.months) :
          out.res.income_vals[i] > 0 /\ out.res.expense_vals[i] = 0
    /\ \E i \in 1..Len(out.res.months) :
          out.res.income_vals[i] = 0 /\ out.res.expense_vals[i] > 0

\* the expense total of a category of the core store
CategoryExpenseTotal(txs, c) ==
    AmountSum(SelectSeq(txs, LAMBDA t : t.type = "Expense" /\ t.category = c))

\* C18: category buckets come in descending order of expense total, buckets of
\* equal total in alphabetical order of the category name, whatever the order
\* of the records.
C18_CategoryOrder ==
    /\ out.op = "category_percentages"
       => \A i, j \in 1..Len(out.res.percentages) : i < j =>
            \A a \in {CategoryExpenseTotal(transactions, out.res.percentages[i].category)} :
            \A b \in {CategoryExpenseTotal(transactions, out.res.percentages[j].category)} :
                \/ a > b
                \/ /\ a = b
                   /\ AlphaRank(out.res.percentages[i].category)
                        < AlphaRank(out.res.percentages[j].category)
    /\ out.op = "get_category_summary"
       => \A i, j \in 1..Len(out.res) : i < j =>
            \/ out.res[i].total > out.res[j].total
            \/ /\ out.res[i].total = out.res[j].total
               /\ AlphaRank(out.res[i].category) < AlphaRank(out.res[j].category)

\* C20: no analytics operation changes the series it is given: the caller's
\* list holds the same records in the same order after every call.
C20_InputsNotMutated == [][transactions' = transactions /\ rows' = rows]_vars

\* C20 witness: a forecast has been returned for a series whose expenses were
\* not supplied in date order (the forecast sorts them).
C20_Witness ==
    /\ out.op = "predict_spending" /\ out.res.status = "returned"
    /\ NExpenses >= 2
    /\ SelectExpenses(transactions) # SortByDate(SelectExpenses(transactions))

----------------------------------------------------------------------------
(* Category aggregation claims, checked under SpecRows *)

TotalExpense(df) == ExpenseSum(df)

\* the sum of every cell of a month x category table
PivotTotal(pivot) ==
    LET cells == {<<m, c>> : m \in DOMAIN pivot, c \in {CategoriesAlpha[i] : i \in DOMAIN CategoriesAlpha}}
        RECURSIVE Add(_)
        Add(S) == IF S = {} THEN 0
                  ELSE LET x == CHOOSE x \in S : TRUE
                       IN  (IF x[2] \in DOMAIN pivot[x[1]] THEN pivot[x[1]][x[2]] ELSE 0)
                           + Add(S \ {x})
    IN  Add(cells)

\* every order in which the same records can be supplied
PermutationsOf(s) == {[i \in 1..Len(s) |-> s[f[i]]] : f \in Permutations(1..Len(s))}

\* the trend of the least-squares line of |amount| against the number of days
\* since the earliest expense
DayOffsetTrend(tbl) ==
    LET chrono == ExpenseRows(Reversed(OrderByDateDesc(tbl)))
        X == [i \in 1..Len(chrono) |-> chrono[i].date - chrono[1].date]
        y == [i \in 1..Len(chrono) |-> Abs(chrono[i].amount)]
        coef == LinearRegressionFit(X, y).coef
    IN  IF coef[1] > 0 THEN "increasing" ELSE IF coef[1] < 0 THEN "decreasing" ELSE "flat"

\* C12: the forecast does not depend on the order in which the records are
\* supplied (any permutation of the same records gives the same result), and
\* its x is the number of days since the earliest expense date.
C12_ForecastOrderIndependent ==
    (out.op = "run_prediction" /\ out.res.shown = "prediction")
    => /\ \A p \in PermutationsOf(rows) : run_prediction(p) = out.res
       /\ out.res.trend = DayOffsetTrend(rows)

C3_TopNConservesTotal ==
    (out.op = "plot_category_trends" /\ out.res.plotted)
    => PivotTotal(out.res.pivot) = TotalExpense(rows)

----------------------------------------------------------------------------
(* Repeated analytics calls on one list: finance_app.py generate_analytics and
   generate_prediction call the FinanceAnalyzer static methods again on every
   click *)

MaxCalls == 3
MaxRecomputeLen == 2

\* expenses supplied out of date order, with different amounts and categories,
\* and one income record
RecomputeRecords ==
    {Expense(10, "Food", 1), Expense(20, "Rent", 0), Expense(20, "Food", 0),
     Income(10, "Salary", 0)}

InitRecompute ==
    /\ transactions \in SeqsUpTo(RecomputeRecords, MaxRecomputeLen)
    /\ rows = <<>>
    /\ HAS_SKLEARN \in BOOLEAN
    /\ old_scipy = FALSE
    /\ mode_raises = FALSE
    /\ out = NoCall
    /\ database = NoDb /\ view = NoView /\ calls = <<>>

\* one more call made and logged
Logged(op, days_ahead, res) ==
    /\ Len(calls) < MaxCalls
    /\ out' = [op |-> op, days_ahead |-> days_ahead, res |-> res]
    /\ calls' = Append(calls, out')

CallCalculateStatistics ==
    /\ Logged("calculate_statistics", 0, calculate_statistics(ExpenseAmounts(transactions)))
    /\ UNCHANGED <<transactions, rows, HAS_SKLEARN, old_scipy, mode_raises, database, view>>

CallPredictSpending ==
    /\ \E days_ahead \in DaysAhead :
        Logged("predict_spending", days_ahead, predict_spending(transactions, days_ahead))
    /\ transactions' = CallerListAfterSort(transactions)
    /\ UNCHANGED <<rows, HAS_SKLEARN, old_scipy, mode_raises, database, view>>

CallMonthlyTrend ==
    /\ Logged("monthly_trend", 0, monthly_trend(transactions))
    /\ UNCHANGED <<transactions, rows, HAS_SKLEARN, old_scipy, mode_raises, database, view>>

CallCategoryPercentages ==
    /\ Logged("category_percentages", 0, category_percentages(transactions))
    /\ UNCHANGED <<transactions, rows, HAS_SKLEARN, old_scipy, mode_raises, database, view>>

NextRecompute ==
    \/ CallCalculateStatistics
    \/ CallPredictSpending
    \/ CallMonthlyTrend
    \/ CallCategoryPercentages

SpecRecompute == InitRecompute /\ [][NextRecompute]_vars

\* C21: re-computation is idempotent: two calls of the same analytics operation
\* with the same horizon on the same series return identical output, whatever
\* other analytics calls were made in between.
C21_RecomputationIdempotent ==
    \A i, j \in 1..Len(calls) :
        (calls[i].op = calls[j].op /\ calls[i].days_ahead = calls[j].days_ahead)
        => calls[i].res = calls[j].res

\* C21 witness: statistics and category shares were computed, then a forecast
\* was returned for expenses supplied out of date order, then they were
\* computed again.
C21_Witness ==
    /\ Len(calls) = 3
    /\ calls[1].op = calls[3].op
    /\ calls[1].op \in {"calculate_statistics", "category_percentages"}
    /\ calls[2].op = "predict_spending" /\ calls[2].res.status = "returned"
    /\ NExpenses >= 2
    /\ SelectExpenses(transactions) # SortByDate(SelectExpenses(transactions))

----------------------------------------------------------------------------
(* predictions/model.py generate_insights(self, mean, std_dev, slope).  mean
   and std_dev are in currency units, slope in tenths of a unit per day.  The
   method returns " ".join(insights); the joined text is held as the sequence
   of its sentences. *)

MeanBandInsights ==
    {"You are maintaining a low daily spending average.",
     "Your average daily spending is quite high.",
     "Your daily spending is within a moderate range."}

VariabilityInsights ==
    {"Your spending is very consistent day-to-day.",
     "Your spending varies significantly from day to day."}

TrendInsights ==
    {"Warning: Your spending is trending upwards over time.",
     "Great job! Your spending is trending downwards."}

\* if mean < 30 ... elif mean > 100 ... else ...
MeanBandInsight(mean) ==
    IF mean < 30 THEN <<"You are maintaining a low daily spending average.">>
    ELSE IF mean > 100 THEN <<"Your average daily spending is quite high.">>
    ELSE <<"Your daily spending is within a moderate range.">>

\* if std_dev < mean * 0.2 ... elif std_dev > mean * 0.5 ...
VariabilityInsight(mean, std_dev) ==
    IF 5 * std_dev < mean THEN <<"Your spending is very consistent day-to-day.">>
    ELSE IF 2 * std_dev > mean
         THEN <<"Your spending varies significantly from day to day.">>
    ELSE <<>>

\* if slope > 0.5 ... elif slope < -0.5 ...
TrendInsight(slope) ==
    IF slope > 5 THEN <<"Warning: Your spending is trending upwards over time.">>
    ELSE IF slope < -5 THEN <<"Great job! Your spending is trending downwards.">>
    ELSE <<>>

\* the trend sentence appended before the variability sentence
generate_insights_TrendFirst(mean, std_dev, slope) ==
    MeanBandInsight(mean) \o TrendInsight(slope) \o VariabilityInsight(mean, std_dev)

generate_insights(mean, std_dev, slope) ==
    MeanBandInsight(mean) \o VariabilityInsight(mean, std_dev) \o TrendInsight(slope)

MaxInsightCalls == 2

\* values on both sides of every threshold, and on those that are exact in
\* binary floating point (30, 100, mean * 0.5, 0.5)
InsightMeans == {20, 30, 100, 120}
InsightStdDevs == {5, 15, 60}
InsightSlopes == {-6, -5, 5, 6}

InitInsights ==
    /\ transactions = <<>>
    /\ rows = <<>>
    /\ HAS_SKLEARN = TRUE
    /\ old_scipy = FALSE
    /\ mode_raises = FALSE
    /\ out = NoCall
    /\ database = NoDb /\ view = NoView /\ calls = <<>>

GenerateInsights ==
    /\ Len(calls) < MaxInsightCalls
    /\ \E mean \in InsightMeans, std_dev \in InsightStdDevs, slope \in InsightSlopes :
        /\ out' = [op |-> "generate_insights", mean |-> mean, std_dev |-> std_dev,
                   slope |-> slope, res |-> generate_insights(mean, std_dev, slope)]
        /\ calls' = Append(calls, out')
    /\ UNCHANGED <<transactions, rows, HAS_SKLEARN, old_scipy, mode_raises, database, view>>

NextInsights == GenerateInsights

SpecInsights == InitInsights /\ [][NextInsights]_vars

\* C22: generate_insights is a pure function of (mean, std_dev, slope): two
\* calls with identical inputs return identical insights in identical order,
\* whatever was called before; the mean-band insight comes first, then at most
\* one variability insight, then at most one trend insight.
C22_InsightsPureAndOrdered ==
    /\ \A i, j \in 1..Len(calls) :
          (calls[i].mean = calls[j].mean /\ calls[i].std_dev = calls[j].std_dev
              /\ calls[i].slope = calls[j].slope)
          => calls[i].res = calls[j].res
    /\ \A i \in 1..Len(calls) :
          \E v \in {<<>>} \cup {<<s>> : s \in VariabilityInsights},
             t \in {<<>>} \cup {<<s>> : s \in TrendInsights} :
              /\ Len(calls[i].res) >= 1
              /\ calls[i].res[1] \in MeanBandInsights
              /\ calls[i].res = <<calls[i].res[1]>> \o v \o t

\* C22 witness: the same inputs were given twice and all three kinds of insight
\* came back.
C22_Witness ==
    /\ Len(calls) = 2
    /\ calls[1].mean = calls[2].mean /\ calls[1].std_dev = calls[2].std_dev
    /\ calls[1].slope = calls[2].slope
    /\ Len(calls[2].res) = 3

----------------------------------------------------------------------------
(* dashboard/app.py: the tables accounts, categories and transactions of
   finance_ctk.db and the functions that write them *)

MaxDashboardTx == 3

\* an INTEGER PRIMARY KEY column left out of the INSERT: one more than the
\* largest id of the table, 1 in an empty table
NextRowId(table) ==
    IF table = {} THEN 1
    ELSE 1 + (CHOOSE m \in {r.id : r \in table} : \A r \in table : r.id <= m)

\* INSERT OR IGNORE INTO <table> (name) VALUES (?): name is UNIQUE; a new
\* account row takes the column default balance 0
add_account_if_missing(accounts, name) ==
    IF \E a \in accounts : a.name = name THEN accounts
    ELSE accounts \cup {[id |-> NextRowId(accounts), name |-> name, balance |-> 0]}

add_category_if_missing(categories, name) ==
    IF \E c \in categories : c.name = name THEN categories
    ELSE categories \cup {[id |-> NextRowId(categories), name |-> name]}

\* SELECT id FROM <table> WHERE name=?
IdOfName(table, name) == (CHOOSE r \in table : r.name = name).id

\* the balance written over with the amount
BalanceAfter_Overwrite(balance, amount) == amount

\* UPDATE accounts SET balance = balance + ?
BalanceAfter(balance, amount) == balance + amount

\* insert_transaction(date, account_name, amount, category_name): the tables
\* once it has committed
insert_transaction(tables, date, account_name, amount, category_name) ==
    LET accounts == add_account_if_missing(tables.accounts, account_name)
        categories == add_category_if_missing(tables.categories, category_name)
        acc_id == IdOfName(accounts, account_name)
        cat_id == IdOfName(categories, category_name)
    IN  [open |-> TRUE,
         accounts |-> {IF a.id = acc_id
                       THEN [a EXCEPT !.balance = BalanceAfter(a.balance, amount)]
                       ELSE a : a \in accounts},
         categories |-> categories,
         transactions |-> tables.transactions \cup
             {[id |-> NextRowId(tables.transactions), date |-> date,
               account_id |-> acc_id, amount |-> amount, category_id |-> cat_id]}]

\* init_db on a new file, and clear_all_data: DELETE FROM each of the tables
\* (init_db after it finds the three tables in place)
EmptyDashboardTables ==
    [open |-> TRUE, accounts |-> {}, categories |-> {}, transactions |-> {}]

DashboardAccounts == {"Checking", "Savings"}
DashboardCategories == {"Food", "Income"}
DashboardAmounts == {-50, 20}

InitDashboard ==
    /\ transactions = <<>>
    /\ rows = <<>>
    /\ HAS_SKLEARN = TRUE
    /\ old_scipy = FALSE
    /\ mode_raises = FALSE
    /\ out = NoCall
    /\ database = EmptyDashboardTables
    /\ view = NoView /\ calls = <<>>

InsertTransaction ==
    /\ Cardinality(database.transactions) < MaxDashboardTx
    /\ \E account_name \in DashboardAccounts, amount \in DashboardAmounts,
          category_name \in DashboardCategories :
        /\ database' = insert_transaction(database, 0, account_name, amount, category_name)
        /\ out' = [op |-> "insert_transaction", account |-> account_name, amount |-> amount]
    /\ UNCHANGED <<transactions, rows, HAS_SKLEARN, old_scipy, mode_raises, view, calls>>

\* clear_all_confirm: clear_all_data(); init_db()
ClearAllData ==
    /\ database' = EmptyDashboardTables
    /\ out' = [op |-> "clear_all_data"]
    /\ UNCHANGED <<transactions, rows, HAS_SKLEARN, old_scipy, mode_raises, view, calls>>

NextDashboard == InsertTransaction \/ ClearAllData

SpecDashboard == InitDashboard /\ [][NextDashboard]_vars

\* the sum of the amount column over a set of rows
RECURSIVE SumOfAmounts(_)
SumOfAmounts(S) ==
    IF S = {} THEN 0
    ELSE LET r == CHOOSE r \in S : TRUE IN r.amount + SumOfAmounts(S \ {r})

\* C24: after any sequence of insert_transaction and clear_all_data calls, the
\* balance of every stored account equals the sum of the amounts of the
\* transactions recorded against it (0 if there are none), and every
\* transaction refers to an existing account and an existing category.
C24_BalanceBookkeeping ==
    /\ \A a \in database.accounts :
          a.balance = SumOfAmounts({t \in database.transactions : t.account_id = a.id})
    /\ \A t \in database.transactions :
          /\ \E a \in database.accounts : a.id = t.account_id
          /\ \E c \in database.categories : c.id = t.category_id

\* C24 witness: an insert has just been made on an account that now holds two
\* transactions of different amounts, while a second account exists.
C24_Witness ==
    /\ out.op = "insert_transaction"
    /\ Cardinality(database.accounts) = 2
    /\ \E a \in database.accounts : \E t, u \in database.transactions :
          /\ t.account_id = a.id /\ u.account_id = a.id
          /\ t.amount # u.amount
          /\ a.balance # 0

----------------------------------------------------------------------------
(* transaction/manager.py: the table transactions of transactions.db and the
   TransactionView that lists, filters, adds, edits and deletes its rows.
   A row is [id, date, amount, category]; the description is left out.  The
   month filter stays at "All Time" and the search box empty. *)

\* the largest id the store is let to reach
MaxManagerId == 3

\* str.strip().title() on the category names in use
Title(category) ==
    IF category = "salary" THEN "Salary"
    ELSE IF category = "food" THEN "Food"
    ELSE category

\* manager.py Transaction(tid, date, description, amount, category)
ManagerTransaction(tid, date, amount, category) ==
    [id |-> tid, date |-> date, amount |-> amount, category |-> Title(category)]

\* the id taken as the number of stored rows plus one
next_id_CountPlusOne(table) == Cardinality(table) + 1

\* TransactionView._next_id: SELECT MAX(id) FROM transactions, plus 1; 1 on an
\* empty table
next_id(table) ==
    IF table = {} THEN 1
    ELSE 1 + (CHOOSE m \in {r.id : r \in table} : \A r \in table : r.id <= m)

\* save_transaction_db: INSERT OR REPLACE INTO transactions (id, ...)
save_transaction_db(table, tx) == {r \in table : r.id # tx.id} \cup {tx}

\* tx_type = "Income" if t.amount >= 0 else "Expense"
TxType(t) == IF t.amount >= 0 THEN "Income" ELSE "Expense"

\* the filters of the loop of load_table_from_db, as the view holds them
PassesFilters(v, t) ==
    /\ v.var_filter_type = "Income" => TxType(t) = "Income"
    /\ v.var_filter_type = "Expense" => TxType(t) = "Expense"
    /\ (v.current_filter # "None" /\ v.current_filter # "All Categories")
       => t.category = v.current_filter

\* TransactionView.load_table_from_db: the view once the call has returned.
\* The tree is emptied and filled with the rows that pass the filters, the
\* cards are written, and then a category filter that is none of the
\* categories shown is reset.  (The rows are inserted in date order; the tree
\* is held as the set of its rows.)
load_table_from_db(v, table) ==
    LET shown == {t \in table : PassesFilters(v, t)}
        inc == {t \in shown : t.amount >= 0}
        exp == {t \in shown : t.amount < 0}
        values == {"All Categories"} \cup {t.category : t \in shown}
        reset == v.current_filter \notin values /\ v.current_filter # "None"
    IN  [v EXCEPT !.tree = shown,
                  !.card_total_count = Cardinality(shown),
                  !.card_total_income = SumOfAmounts(inc),
                  !.card_total_expense = -SumOfAmounts(exp),
                  !.var_filter = IF reset THEN "All Categories" ELSE @,
                  !.current_filter = IF reset THEN "None" ELSE @]

\* TransactionView.__init__: init_db(), every filter at its default
NewTransactionView ==
    [kind |-> "TransactionView", current_filter |-> "None",
     var_filter |-> "All Categories", var_filter_type |-> "All Types",
     tree |-> {}, card_total_count |-> 0, card_total_income |-> 0,
     card_total_expense |-> 0]

\* what the modal's fields can hold on Save: a date, or text that strptime
\* rejects (BadDate)
ModalDates == {0, BadDate}
ModalTypes == {"Income", "Expense"}
ModalCategories == {"Food", "salary"}
ModalAmount == 10

\* the choices handed to _on_apply_filter and _on_apply_filter_type
CategoryChoices == {"All Categories", "Food"}
TypeChoices == {"All Types", "Expense"}

InitManager ==
    /\ transactions = <<>>
    /\ rows = <<>>
    /\ HAS_SKLEARN = TRUE
    /\ old_scipy = FALSE
    /\ mode_raises = FALSE
    /\ out = NoCall
    /\ database = [open |-> TRUE, transactions |-> {}]
    /\ view = NewTransactionView
    /\ calls = <<>>

\* _submit of the modal opened by _on_add (top.grab_set() keeps the main
\* window from handling anything while the modal is open)
SubmitAdd ==
    /\ next_id(database.transactions) <= MaxManagerId
    /\ \E d_str \in ModalDates, type \in ModalTypes, cat \in ModalCategories :
        IF d_str = BadDate
        THEN /\ out' = [op |-> "_submit", is_edit |-> FALSE, saved |-> FALSE]
             /\ UNCHANGED <<database, view>>
        ELSE LET amt == IF type = "Expense" THEN -ModalAmount ELSE ModalAmount
                 new_id == next_id(database.transactions)
                 table == save_transaction_db(database.transactions,
                              ManagerTransaction(new_id, d_str, amt, cat))
             IN  /\ database' = [database EXCEPT !.transactions = table]
                 /\ view' = load_table_from_db(view, table)
                 /\ out' = [op |-> "_submit", is_edit |-> FALSE, saved |-> TRUE, id |-> new_id]
    /\ UNCHANGED <<transactions, rows, HAS_SKLEARN, old_scipy, mode_raises, calls>>

\* _on_edit on one selected row of the tree, then _submit of its modal
SubmitEdit ==
    /\ \E sel \in view.tree, d_str \in ModalDates, type \in ModalTypes, cat \in ModalCategories :
        IF d_str = BadDate
        THEN /\ out' = [op |-> "_submit", is_edit |-> TRUE, saved |-> FALSE]
             /\ UNCHANGED <<database, view>>
        ELSE LET amt == IF type = "Expense" THEN -ModalAmount ELSE ModalAmount
                 table == save_transaction_db(database.transactions,
                              ManagerTransaction(sel.id, d_str, amt, cat))
             IN  /\ database' = [database EXCEPT !.transactions = table]
                 /\ view' = load_table_from_db(view, table)
                 /\ out' = [op |-> "_submit", is_edit |-> TRUE, saved |-> TRUE, id |-> sel.id]
    /\ UNCHANGED <<transactions, rows, HAS_SKLEARN, old_scipy, mode_raises, calls>>

\* _on_delete with a non-empty selection, confirmed: DELETE each selected id,
\* then _on_refresh
OnDelete ==
    /\ \E sels \in SUBSET view.tree :
        /\ sels # {}
        /\ LET table == {r \in database.transactions : \A x \in sels : x.id # r.id}
           IN  /\ database' = [database EXCEPT !.transactions = table]
               /\ view' = load_table_from_db(view, table)
               /\ out' = [op |-> "_on_delete"]
    /\ UNCHANGED <<transactions, rows, HAS_SKLEARN, old_scipy, mode_raises, calls>>

\* _on_apply_filter(choice): the combo has set var_filter to the choice
OnApplyFilter ==
    /\ \E choice \in CategoryChoices :
        LET v == [view EXCEPT !.var_filter = choice,
                              !.current_filter = IF choice # "All Categories" THEN choice
                                                 ELSE "None"]
        IN  /\ view' = load_table_from_db(v, database.transactions)
            /\ out' = [op |-> "_on_apply_filter", choice |-> choice]
    /\ UNCHANGED <<transactions, rows, HAS_SKLEARN, old_scipy, mode_raises, database, calls>>

\* _on_apply_filter_type(choice): the combo has set var_filter_type
OnApplyFilterType ==
    /\ \E choice \in TypeChoices :
        LET v == [view EXCEPT !.var_filter_type = choice]
        IN  /\ view' = load_table_from_db(v, database.transactions)
            /\ out' = [op |-> "_on_apply_filter_type", choice |-> choice]
    /\ UNCHANGED <<transactions, rows, HAS_SKLEARN, old_scipy, mode_raises, database, calls>>

\* _on_refresh
OnRefresh ==
    /\ view' = load_table_from_db(view, database.transactions)
    /\ out' = [op |-> "_on_refresh"]
    /\ UNCHANGED <<transactions, rows, HAS_SKLEARN, old_scipy, mode_raises, database, calls>>

NextManager ==
    \/ SubmitAdd
    \/ SubmitEdit
    \/ OnDelete
    \/ OnApplyFilter
    \/ OnApplyFilterType
    \/ OnRefresh

SpecManager == InitManager /\ [][NextManager]_vars

\* C25: adding a transaction never overwrites an existing one: the id _next_id
\* chooses differs from every stored id, an add increases the number of stored
\* transactions by exactly 1 and leaves every other one unchanged, and an edit
\* replaces only the transaction of the edited id and leaves the number
\* unchanged.
C25_AddNeverOverwrites ==
    [][(out'.op = "_submit" /\ out'.saved)
       => IF out'.is_edit
          THEN /\ Cardinality(database'.transactions) = Cardinality(database.transactions)
               /\ {r \in database'.transactions : r.id # out'.id}
                    = {r \in database.transactions : r.id # out'.id}
               /\ \E r \in database'.transactions : r.id = out'.id
          ELSE /\ \A r \in database.transactions : r.id # out'.id
               /\ Cardinality(database'.transactions)
                    = Cardinality(database.transactions) + 1
               /\ database.transactions \subseteq database'.transactions]_vars

\* C25 witness: a transaction was added after an earlier one had been deleted:
\* it took id 3 although fewer than 3 rows are stored.
C25_Witness ==
    /\ out.op = "_submit" /\ out.saved /\ ~out.is_edit
    /\ out.id = 3
    /\ Cardinality(database.transactions) = 2

----------------------------------------------------------------------------
(* finance_core.py FinanceDatabase and the handlers of finance_app.py that
   write it: add_transaction (the form), delete_transaction, clear_all_data,
   each followed by load_transactions.  A table row is
   [id, type, amount, category, date, extra_data]; a Transaction object is
   [transaction_id, type, amount, category, date, attr] with attr holding
   source or payment_method.  The description is left out. *)

\* the largest id AUTOINCREMENT is let to hand out
MaxCoreId == 3

\* id INTEGER PRIMARY KEY AUTOINCREMENT: one more than the largest id the
\* table ever held (kept in sqlite_sequence; DELETE does not lower it)
NextAutoId(tables) == tables.seq + 1

\* Income(0, amount, category, description, date, source=category) /
\* Expense(0, amount, category, description, date, payment_method="Card")
NewIncome(amount, category, date, source) ==
    [transaction_id |-> 0, type |-> "Income", amount |-> amount,
     category |-> Title(category), date |-> date, attr |-> [source |-> source]]

NewExpense(amount, category, date, payment_method) ==
    [transaction_id |-> 0, type |-> "Expense", amount |-> amount,
     category |-> Title(category), date |-> date,
     attr |-> [payment_method |-> payment_method]]

\* FinanceDatabase.add_transaction: the row INSERTed (type is the class name,
\* extra_data the JSON of source / payment_method) under the next id
add_transaction(tables, transaction) ==
    [open |-> TRUE,
     seq |-> NextAutoId(tables),
     transactions |-> tables.transactions \cup
        {[id |-> NextAutoId(tables), type |-> transaction.type,
          amount |-> transaction.amount, category |-> transaction.category,
          date |-> transaction.date, extra_data |-> transaction.attr]}]

\* every row read back as an Expense
TransactionOfRow_AlwaysExpense(r) ==
    [transaction_id |-> r.id, type |-> "Expense", amount |-> r.amount,
     category |-> Title(r.category), date |-> r.date,
     attr |-> [payment_method |-> IF "payment_method" \in DOMAIN r.extra_data
                                   THEN r.extra_data.payment_method ELSE ""]]

\* get_all_transactions, one row: Income(...) if ttype == "Income", else
\* Expense(...), with extra.get('source', '') / extra.get('payment_method', '')
TransactionOfRow(r) ==
    IF r.type = "Income"
    THEN [transaction_id |-> r.id, type |-> "Income", amount |-> r.amount,
          category |-> Title(r.category), date |-> r.date,
          attr |-> [source |-> IF "source" \in DOMAIN r.extra_data
                               THEN r.extra_data.source ELSE ""]]
    ELSE [transaction_id |-> r.id, type |-> "Expense", amount |-> r.amount,
          category |-> Title(r.category), date |-> r.date,
          attr |-> [payment_method |-> IF "payment_method" \in DOMAIN r.extra_data
                                       THEN r.extra_data.payment_method ELSE ""]]

\* SELECT * FROM transactions ORDER BY date DESC: every list of all the rows,
\* each once, in descending date order (SQL leaves the order of rows of one
\* date open), each row built into its object
GetAllTransactions(tables) ==
    LET table == tables.transactions
        n == Cardinality(table)
        orders == {p \in [1..n -> table] :
                      /\ \A i, j \in 1..n : i # j => p[i] # p[j]
                      /\ \A i, j \in 1..n : i < j => p[i].date >= p[j].date}
    IN  {[i \in 1..n |-> TransactionOfRow(p[i])] : p \in orders}

\* FinanceDatabase.delete_transaction / clear_all
delete_transaction(tables, transaction_id) ==
    [tables EXCEPT !.transactions = {r \in @ : r.id # transaction_id}]

clear_all(tables) == [tables EXCEPT !.transactions = {}]

\* amounts below zero alone turned away
AmountRejected_NegativeOnly(amount) == amount < 0

\* if amount <= 0: showerror("Amount must be positive"); return
AmountRejected(amount) == amount <= 0

\* what the amount entry can hold: text float() rejects, "nan" (float() takes
\* it, and nan <= 0 is False), and numbers
AmountEntries ==
    {[kind |-> "text"], [kind |-> "nan"]}
        \cup {[kind |-> "number", value |-> v] : v \in {-10, 0, 10}}

FormCategories == {"", "food"}
FormTypes == {"Income", "Expense"}
FormDates == {0, 1}

\* FinanceTrackerApp.add_transaction up to the save: "ValueError" when float()
\* fails, "rejected" when a validation returns early, "IntegrityError" when
\* the INSERT fails (sqlite3 binds NaN as NULL and amount is NOT NULL), else
\* "stored"
FormOutcome(amount_entry, category) ==
    IF amount_entry.kind = "text" THEN "ValueError"
    ELSE IF amount_entry.kind = "number" /\ AmountRejected(amount_entry.value) THEN "rejected"
    ELSE IF category = "" THEN "rejected"
    ELSE IF amount_entry.kind = "nan" THEN "IntegrityError"
    ELSE "stored"

\* FinanceTrackerApp.__init__: FinanceDatabase("finance_app.db") on a new
\* file, load_transactions
InitForm ==
    /\ transactions = <<>>
    /\ rows = <<>>
    /\ HAS_SKLEARN = TRUE
    /\ old_scipy = FALSE
    /\ mode_raises = FALSE
    /\ out = NoCall
    /\ database = [open |-> TRUE, seq |-> 0, transactions |-> {}]
    /\ view = [kind |-> "FinanceTrackerApp", trans_tree |-> <<>>]
    /\ calls = <<>>

\* load_transactions: the tree shows what get_all_transactions returned
LoadTransactions(tables) ==
    \E all \in GetAllTransactions(tables) : view' = [view EXCEPT !.trans_tree = all]

\* FinanceTrackerApp.add_transaction (the form's Add button)
AddTransactionForm ==
    /\ NextAutoId(database) <= MaxCoreId
    /\ \E amount_entry \in AmountEntries, category \in FormCategories,
          trans_type \in FormTypes, date \in FormDates :
        LET outcome == FormOutcome(amount_entry, category)
            transaction == IF trans_type = "Income"
                           THEN NewIncome(amount_entry.value, category, date, category)
                           ELSE NewExpense(amount_entry.value, category, date, "Card")
        IN  /\ out' = [op |-> "add_transaction", outcome |-> outcome,
                       amount_entry |-> amount_entry, category |-> category,
                       trans_type |-> trans_type, date |-> date,
                       id |-> IF outcome = "stored" THEN NextAutoId(database) ELSE 0]
            /\ IF outcome = "stored"
               THEN /\ database' = add_transaction(database, transaction)
                    /\ LoadTransactions(database')
               ELSE UNCHANGED <<database, view>>
    /\ UNCHANGED <<transactions, rows, HAS_SKLEARN, old_scipy, mode_raises, calls>>

\* FinanceTrackerApp.delete_transaction: the first selected row of the tree,
\* confirmed
DeleteTransaction ==
    /\ \E i \in 1..Len(view.trans_tree) :
        /\ database' = delete_transaction(database, view.trans_tree[i].transaction_id)
        /\ out' = [op |-> "delete_transaction", id |-> view.trans_tree[i].transaction_id]
    /\ LoadTransactions(database')
    /\ UNCHANGED <<transactions, rows, HAS_SKLEARN, old_scipy, mode_raises, calls>>

\* FinanceTrackerApp.clear_all_data, confirmed
ClearAll ==
    /\ database' = clear_all(database)
    /\ out' = [op |-> "clear_all"]
    /\ LoadTransactions(database')
    /\ UNCHANGED <<transactions, rows, HAS_SKLEARN, old_scipy, mode_raises, calls>>

NextForm == AddTransactionForm \/ DeleteTransaction \/ ClearAll

SpecForm == InitForm /\ [][NextForm]_vars

\* the form's input is invalid: the amount is no number, or <= 0, or the
\* category is empty
InvalidFormInput(o) ==
    \/ o.amount_entry.kind = "text"
    \/ o.amount_entry.kind = "number" /\ o.amount_entry.value <= 0
    \/ o.category = ""

\* C27: the add-transaction form leaves the store unchanged on invalid input
\* (amount not a number, amount <= 0, or empty category); every transaction
\* stored through the form has amount > 0, and whether it is income or expense
\* is carried by its record type alone (the type chosen in the form).
C27_FormValidation ==
    /\ [][(out'.op = "add_transaction" /\ InvalidFormInput(out'))
          => database' = database]_vars
    /\ [](\A r \in database.transactions : r.amount > 0 /\ r.type \in FormTypes)
    /\ []((out.op = "add_transaction" /\ out.outcome = "stored")
          => \E r \in database.transactions :
                r.id = out.id /\ r.type = out.trans_type /\ r.amount > 0)

\* C27 witness: with transactions of both types stored, the form has just
\* turned away an amount of 0.
C27_Witness ==
    /\ out.op = "add_transaction" /\ out.outcome = "rejected"
    /\ out.amount_entry = [kind |-> "number", value |-> 0]
    /\ out.category # ""
    /\ \E r, q \in database.transactions : r.type = "Income" /\ q.type = "Expense"

\* the object the form built from what out records
FormTransaction(o) ==
    IF o.trans_type = "Income"
    THEN NewIncome(o.amount_entry.value, o.category, o.date, o.category)
    ELSE NewExpense(o.amount_entry.value, o.category, o.date, "Card")

StoredIds == {r.id : r \in database.transactions}

\* C28: after add_transaction(t), get_all_transactions returns a transaction
\* of the same type with the same amount, category, date and source /
\* payment_method as t, under an id distinct from every other one's; the list
\* is in descending date order and holds exactly the transactions added and
\* not deleted since.
C28_DatabaseRoundTrip ==
    /\ []((out.op = "add_transaction" /\ out.outcome = "stored")
          => \E i \in 1..Len(view.trans_tree) :
                view.trans_tree[i]
                    = [FormTransaction(out) EXCEPT !.transaction_id = out.id])
    /\ [](/\ \A i, j \in 1..Len(view.trans_tree) :
                i # j => view.trans_tree[i].transaction_id # view.trans_tree[j].transaction_id
          /\ \A i, j \in 1..Len(view.trans_tree) :
                i < j => view.trans_tree[i].date >= view.trans_tree[j].date
          /\ {view.trans_tree[i].transaction_id : i \in 1..Len(view.trans_tree)} = StoredIds
          /\ \A i \in 1..Len(view.trans_tree) :
                \E r \in database.transactions : view.trans_tree[i] = TransactionOfRow(r))
    /\ [][/\ (out'.op = "add_transaction" /\ out'.outcome = "stored")
             => /\ out'.id \notin StoredIds
                /\ database.transactions \subseteq database'.transactions
                /\ StoredIds' = StoredIds \cup {out'.id}
          /\ out'.op = "delete_transaction"
             => database'.transactions = {r \in database.transactions : r.id # out'.id}
          /\ out'.op = "clear_all" => database'.transactions = {}
          /\ (out'.op = "add_transaction" /\ out'.outcome # "stored")
             => database' = database]_vars

\* C28 witness: a transaction was added after an earlier one had been deleted;
\* the list returned holds an Income and an Expense of different dates.
C28_Witness ==
    /\ out.op = "add_transaction" /\ out.outcome = "stored" /\ out.id = 3
    /\ Len(view.trans_tree) = 2
    /\ view.trans_tree[1].date > view.trans_tree[2].date
    /\ view.trans_tree[1].type # view.trans_tree[2].type

----------------------------------------------------------------------------
(* finance_core.py TransactionIterator, as filter_transactions of
   finance_app.py uses it: TransactionIterator(all_trans, filter_func=lambda t:
   t.category.lower() == category.lower()) *)

MaxIterLen == 3

\* how many more times __next__ is called than the list has items
MaxExtraNext == 2

\* str.lower() on the category names in use
Lower(category) ==
    IF category = "Food" THEN "food"
    ELSE IF category = "Rent" THEN "rent"
    ELSE category

\* filter_func: lambda x: True when none was given ("All" stands for that),
\* else the case-blind comparison of categories
filter_func(category, t) ==
    category = "All" \/ Lower(t.category) = Lower(category)

\* the index set back to the start once the list is used up
IndexAfterExhaustion_Rewind(txs) == 0

\* the while loop of __next__ fell through: self.index has reached
\* len(self.transactions)
IndexAfterExhaustion(txs) == Len(txs)

\* TransactionIterator.__next__ on an iterator whose index is `index`: the
\* items from index on are passed over up to the first that satisfies
\* filter_func, which is returned; StopIteration when there is none
IteratorNext(txs, category, index) ==
    LET hits == {j \in (index + 1)..Len(txs) : filter_func(category, txs[j])}
    IN  IF hits = {}
        THEN [index |-> IndexAfterExhaustion(txs), res |-> Raised("StopIteration")]
        ELSE LET j == CHOOSE j \in hits : \A k \in hits : j <= k
             IN  [index |-> j, res |-> [status |-> "returned", transaction |-> txs[j]]]

IterRecords ==
    [type : {"Income", "Expense"}, amount : {10}, category : {"Food", "Rent"}, date : {0}]

IterFilters == {"All", "food", "Rent"}

\* TransactionIterator.__init__: index = 0
InitIterator ==
    /\ transactions \in SeqsUpTo(IterRecords, MaxIterLen)
    /\ rows = <<>>
    /\ HAS_SKLEARN = TRUE
    /\ old_scipy = FALSE
    /\ mode_raises = FALSE
    /\ out = NoCall
    /\ database = NoDb
    /\ \E category \in IterFilters :
          view = [kind |-> "TransactionIterator", category |-> category, index |-> 0]
    /\ calls = <<>>

\* one call of __next__
IterNext ==
    /\ Len(calls) < Len(transactions) + MaxExtraNext
    /\ LET step == IteratorNext(transactions, view.category, view.index)
       IN  /\ view' = [view EXCEPT !.index = step.index]
           /\ out' = [op |-> "__next__", res |-> step.res]
           /\ calls' = Append(calls, step.res)
    /\ UNCHANGED <<transactions, rows, HAS_SKLEARN, old_scipy, mode_raises, database>>

NextIterator == IterNext

SpecIterator == InitIterator /\ [][NextIterator]_vars

\* the transactions __next__ has returned so far, in the order returned
Yielded ==
    LET got == SelectSeq(calls, LAMBDA c : c.status = "returned")
    IN  [i \in 1..Len(got) |-> got[i].transaction]

\* the items of the list that satisfy filter_func, in list order
Satisfying == SelectSeq(transactions, LAMBDA t : filter_func(view.category, t))

\* C29: the iterator over a finite list terminates and yields exactly the
\* transactions that satisfy filter_func, each once and in their original
\* order (all of them without a filter); once StopIteration has been raised,
\* every later __next__ raises StopIteration again.
C29_IteratorYieldsFiltered ==
    /\ Len(Yielded) <= Len(Satisfying)
    /\ Yielded = SubSeq(Satisfying, 1, Len(Yielded))
    /\ (\E i \in 1..Len(calls) : calls[i].status = "raised") => Yielded = Satisfying
    /\ Len(calls) > Len(Satisfying) => calls[Len(Satisfying) + 1].status = "raised"
    /\ \A i, j \in 1..Len(calls) :
          (i < j /\ calls[i].status = "raised") => calls[j] = Raised("StopIteration")

\* C29 witness: a filter that passes some items and not others was exhausted
\* and __next__ was called again.
C29_Witness ==
    /\ Len(calls) >= 2
    /\ calls[Len(calls) - 1].status = "raised" /\ calls[Len(calls)].status = "raised"
    /\ Len(Yielded) >= 1
    /\ Len(Yielded) < Len(transactions)
    /\ ~filter_func(view.category, transactions[1])

----------------------------------------------------------------------------
(* FinanceAnalyzer.category_percentages on lists of any amounts: Transaction
   takes any float(amount), so an Expense can hold 0 or a negative amount *)

MaxShareLen == 3

ShareRecords ==
    [type : {"Expense"}, amount : {-10, 0, 10}, category : {"Food", "Rent"}, date : {0}]
        \cup {Income(10, "Salary", 0)}

InitShares ==
    /\ transactions \in SeqsUpTo(ShareRecords, MaxShareLen)
    /\ rows = <<>>
    /\ HAS_SKLEARN = TRUE
    /\ old_scipy = FALSE
    /\ mode_raises = FALSE
    /\ out = NoCall
    /\ database = NoDb /\ view = NoView /\ calls = <<>>

NextShares == CategoryPercentages

SpecShares == InitShares /\ [][NextShares]_vars

\* C30: category_percentages returns a result for every transaction list and
\* never fails: an empty mapping when the list has no Expense record, otherwise
\* one entry per distinct expense category whose value is that category's
\* share of the total expense in percent; lists whose expense amounts sum to
\* zero included.
C30_PercentagesNeverFail ==
    out.op = "category_percentages"
    => /\ out.res.status = "returned"
       /\ SelectExpenses(transactions) = <<>> => out.res.percentages = <<>>
       /\ {out.res.percentages[i].category : i \in 1..Len(out.res.percentages)}
            = {t.category : t \in {transactions[k] : k \in
                  {n \in 1..Len(transactions) : transactions[n].type = "Expense"}}}
       /\ \A i, j \in 1..Len(out.res.percentages) :
            i # j => out.res.percentages[i].category # out.res.percentages[j].category
       /\ \A i \in 1..Len(out.res.percentages) :
            out.res.percentages[i].value
              = PercentOf(CategoryExpenseTotal(transactions, out.res.percentages[i].category),
                          AmountSum(SelectExpenses(transactions)))

====
